---------------------------- MODULE Spec2Model ----------------------------
(***************************************************************************)
(* A model of the mibph lexer (src/src/lex.rs) and of the read-lex-print   *)
(* loop that drives it (src/src/main.rs).                                  *)
(*                                                                         *)
(* Text is a sequence of one-character strings.  Every grammar rule of     *)
(* lex.rs is an operator from the remaining text to a parse result:        *)
(*     [k |-> "ok", val |-> v, rest |-> r]   Ok((r, v))                    *)
(*     [k |-> "err"]                         Err(nom::Err::Error(_))       *)
(*     [k |-> "panic"]                       the thread unwinds (todo!(),  *)
(*                                           arithmetic overflow check)    *)
(* The combinators of nom 7 are expanded in place: alt is the first        *)
(* alternative that is not "err", a sequence stops at its first part that  *)
(* is not "ok", many0 / fold_many0 stop at the first "err".                *)
(*                                                                         *)
(* i64 and u32 values do not fit the integers of the model checker, so a   *)
(* machine integer is the little-endian sequence of its base-2^16 limbs    *)
(* with no leading zero limb (zero is << >>).                              *)
(***************************************************************************)
EXTENDS Integers, Sequences, FiniteSets, TLC

VARIABLES
    overflowChecks, \* build profile: TRUE = debug (overflow panics), FALSE = release (wraps)
    stdin,          \* main: the lines of standard input not read yet
    input,          \* the text handed to the function under execution
    pc,             \* control position of the running caller
    rdx,            \* the const generic R of a direct call of uinteger::<R>
    res,            \* the value the last call returned
    printed,        \* main: which of its three messages the loop printed last
    toks,           \* lex: the Vec<Token> accumulated by many0
    rest            \* lex: the text many0 has not consumed yet

vars == <<overflowChecks, stdin, input, pc, rdx, res, printed, toks, rest>>

---------------------------------------------------------------------------
(* Parse results *)

Ok(v, r) == [k |-> "ok", val |-> v, rest |-> r]

Err == [k |-> "err"]

Panic == [k |-> "panic"]

None == [some |-> FALSE]

Some(v) == [some |-> TRUE, v |-> v]

StartsWith(i, t) == Len(i) >= Len(t) /\ SubSeq(i, 1, Len(t)) = t

Drop(i, n) == SubSeq(i, n + 1, Len(i))

\* recognize(p): the slice of i that a successful result r consumed
Consumed(i, r) == SubSeq(i, 1, Len(i) - Len(r.rest))

\* tag(t)
tag(t, i) == IF StartsWith(i, t) THEN Ok(t, Drop(i, Len(t))) ELSE Err

\* char(c), one_of(set), satisfy(pred): one character of a given set
one_of(S, i) == IF i # << >> /\ Head(i) \in S THEN Ok(Head(i), Tail(i)) ELSE Err

\* none_of(set): one character not in the set
none_of(S, i) == IF i # << >> /\ Head(i) \notin S THEN Ok(Head(i), Tail(i)) ELSE Err

\* anychar
anychar(i) == IF i # << >> THEN Ok(Head(i), Tail(i)) ELSE Err

---------------------------------------------------------------------------
(* Characters and their scalar values *)

\* the printable ASCII characters, U+0020 .. U+007E, in order; the grave accent
\* U+0060 cannot be written in a string of the model and is spelled out
Printable ==
    << " ", "!", "\"", "#", "$", "%", "&", "'", "(", ")", "*", "+", ",", "-", ".", "/",
       "0", "1", "2", "3", "4", "5", "6", "7", "8", "9", ":", ";", "<", "=", ">", "?",
       "@", "A", "B", "C", "D", "E", "F", "G", "H", "I", "J", "K", "L", "M", "N", "O",
       "P", "Q", "R", "S", "T", "U", "V", "W", "X", "Y", "Z", "[", "\\", "]", "^", "_",
       "<backquote>", "a", "b", "c", "d", "e", "f", "g", "h", "i", "j", "k", "l", "m", "n", "o",
       "p", "q", "r", "s", "t", "u", "v", "w", "x", "y", "z", "{", "|", "}", "~" >>

\* the scalar value of a character of the text (char as u32)
Ord(c) ==
    CASE c = "\t" -> 9
      [] c = "\n" -> 10
      [] c = "\r" -> 13
      [] OTHER -> 31 + (CHOOSE n \in 1..Len(Printable) : Printable[n] = c)

\* AsChar::is_alpha for char: is_ascii_alphabetic
Letters == { Printable[n] : n \in 34..59 } \cup { Printable[n] : n \in 66..91 }

---------------------------------------------------------------------------
(* Machine integers as limb sequences *)

Limb == 2^16

\* n * m + c  for a small multiplier m >= 1 and a small addend c
RECURSIVE MulAdd(_, _, _)
MulAdd(n, m, c) ==
    IF n = << >> THEN (IF c = 0 THEN << >> ELSE <<c>>)
    ELSE LET t == Head(n) * m + c
         IN  <<t % Limb>> \o MulAdd(Tail(n), m, t \div Limb)

RECURSIVE LessAt(_, _, _)
LessAt(a, b, n) ==
    IF n = 0 THEN FALSE
    ELSE IF a[n] # b[n] THEN a[n] < b[n]
    ELSE LessAt(a, b, n - 1)

Less(a, b) == IF Len(a) # Len(b) THEN Len(a) < Len(b) ELSE LessAt(a, b, Len(a))

Leq(a, b) == a = b \/ Less(a, b)

\* quotient and remainder of n by a small divisor d
RECURSIVE DivSmall(_, _)
DivSmall(n, d) ==
    IF n = << >> THEN [q |-> << >>, r |-> 0]
    ELSE LET up  == DivSmall(Tail(n), d)
             cur == up.r * Limb + Head(n)
         IN  [q |-> IF up.q = << >> /\ cur \div d = 0 THEN << >>
                    ELSE <<cur \div d>> \o up.q,
              r |-> cur % d]

\* n without its leading zero limbs
RECURSIVE Normalize(_)
Normalize(n) ==
    IF n = << >> THEN << >>
    ELSE IF n[Len(n)] = 0 THEN Normalize(SubSeq(n, 1, Len(n) - 1))
    ELSE n

\* the low `limbs` limbs of n: n mod 2^(16 * limbs), a wrapped machine integer
Truncate(n, limbs) == IF Len(n) <= limbs THEN n ELSE Normalize(SubSeq(n, 1, limbs))

\* i64::MAX = 2^63 - 1
I64_MAX == <<65535, 65535, 65535, 32767>>

\* u32::MAX = 2^32 - 1
U32_MAX == <<65535, 65535>>

\* i64::wrapping_mul: the product keeps its low 64 bits
wrapping_mul(a, m) == Some(Truncate(MulAdd(a, m, 0), 4))

\* i64::checked_mul by the radix, on a non-negative accumulator
checked_mul(a, m) ==
    LET p == MulAdd(a, m, 0) IN IF Leq(p, I64_MAX) THEN Some(p) ELSE None

\* i64::checked_add of a digit, on a non-negative accumulator
checked_add(a, d) ==
    LET s == MulAdd(a, 1, d) IN IF Leq(s, I64_MAX) THEN Some(s) ELSE None

---------------------------------------------------------------------------
(* nom combinators shared by the rules *)

RECURSIVE call(_, _, _)

\* alt((p1, p2, ...)) over the results of its alternatives on one text: the first
\* result that is not Err::Error; the alternatives have no effects, so it does not
\* matter that the later ones are written down as well
alt(rs) ==
    IF \A n \in DOMAIN rs : rs[n].k = "err" THEN Err
    ELSE rs[CHOOSE n \in DOMAIN rs :
                rs[n].k # "err" /\ \A m \in 1..(n - 1) : rs[m].k = "err"]

\* value(v, p) and map(p, f) on a result: the result with v as its value
value(v, r) == IF r.k = "ok" THEN Ok(v, r.rest) ELSE r

\* recognize(p) on p's result r for the text i
recognize(i, r) == IF r.k = "ok" THEN Ok(Consumed(i, r), r.rest) ELSE r

\* the number of leading characters of i that satisfy "not in S" (is_not)
RECURSIVE SpanNotIn(_, _)
SpanNotIn(S, i) ==
    IF i = << >> \/ Head(i) \in S THEN 0 ELSE 1 + SpanNotIn(S, Tail(i))

\* is_not(chars): the longest non-empty prefix free of the characters
is_not(S, i) ==
    LET n == SpanNotIn(S, i)
    IN  IF n = 0 THEN Err ELSE Ok(SubSeq(i, 1, n), Drop(i, n))

\* the offset of the first occurrence of t in i, or -1
RECURSIVE Find(_, _)
Find(t, i) ==
    IF StartsWith(i, t) THEN 0
    ELSE IF i = << >> THEN -1
    ELSE LET n == Find(t, Tail(i)) IN IF n = -1 THEN -1 ELSE n + 1

\* take_until(t): the text before the first occurrence of t, which is not consumed
take_until(t, i) ==
    LET n == Find(t, i)
    IN  IF n = -1 THEN Err ELSE Ok(SubSeq(i, 1, n), Drop(i, n))

---------------------------------------------------------------------------
(* Atmosphere *)

intraline_whitespace(i) == one_of({" ", "\t"}, i)

line_ending(i) == alt(<< tag(<<"\n">>, i), tag(<<"\r", "\n">>, i), tag(<<"\r">>, i) >>)

whitespace(i) == alt(<< recognize(i, call("intraline_whitespace", 0, i)), call("line_ending", 0, i) >>)

datum(i) == Err

comment_text(i) == take_until(<<"|", "#">>, i)

directive(i) ==
    alt(<< tag(<<"#", "!", "f", "o", "l", "d", "-", "c", "a", "s", "e">>, i),
           tag(<<"#", "!", "n", "o", "-", "f", "o", "l", "d", "-", "c", "a", "s", "e">>, i) >>)

RECURSIVE ManyCommentCont(_)
RECURSIVE ManyAtmosphere(_)

\* many0_count(comment_cont): the text left after zero or more comment_cont
ManyCommentCont(i) ==
    LET r == call("comment_cont", 0, i)
    IN  IF r.k = "ok" THEN ManyCommentCont(r.rest) ELSE i

nested_comment(i) ==
    IF ~StartsWith(i, <<"#", "|">>) THEN Err
    ELSE LET body == Drop(i, 2)
             text == call("comment_text", 0, body)
         IN  IF text.k # "ok" THEN Err
             ELSE LET after == ManyCommentCont(text.rest)
                  IN  IF StartsWith(after, <<"|", "#">>)
                      THEN Ok(SubSeq(body, 1, Len(body) - Len(after)), Drop(after, 2))
                      ELSE Err

comment_cont(i) ==
    LET n == call("nested_comment", 0, i)
    IN  IF n.k # "ok" THEN Err
        ELSE recognize(i, call("comment_text", 0, n.rest))

comment(i) ==
    alt(<< IF StartsWith(i, <<";">>) THEN is_not({"\n", "\r"}, Tail(i)) ELSE Err,
           call("nested_comment", 0, i),
           IF StartsWith(i, <<"#", ";">>)
           THEN call("datum", 0, call("intertoken_space", 0, Drop(i, 2)).rest)
           ELSE Err >>)

atmosphere(i) == alt(<< call("whitespace", 0, i), call("comment", 0, i), call("directive", 0, i) >>)

\* many0_count(atmosphere): the text left after zero or more atmosphere units
ManyAtmosphere(i) ==
    LET r == call("atmosphere", 0, i)
    IN  IF r.k = "ok" THEN ManyAtmosphere(r.rest) ELSE i

intertoken_space(i) ==
    LET after == ManyAtmosphere(i)
    IN  Ok(SubSeq(i, 1, Len(i) - Len(after)), after)

---------------------------------------------------------------------------
(* Digits, identifiers and escapes *)

DigitTable ==
    << "0", "1", "2", "3", "4", "5", "6", "7", "8", "9", "a", "b", "c", "d", "e", "f" >>

\* digit::<R>: the index of the first character among the first R table entries
digit(R, i) ==
    IF i # << >> /\ \E x \in 1..R : DigitTable[x] = Head(i)
    THEN Ok((CHOOSE x \in 1..R : DigitTable[x] = Head(i)) - 1, Tail(i))
    ELSE Err

letter(i) == one_of(Letters, i)

special_initial(i) ==
    one_of({"!", "$", "%", "&", "*", "/", ":", "<", "=", ">", "?", "^", "_", "~"}, i)

initial(i) == alt(<< call("letter", 0, i), call("special_initial", 0, i) >>)

explicit_sign(i) == one_of({"+", "-"}, i)

special_subsequent(i) == alt(<< call("explicit_sign", 0, i), one_of({"."}, i), one_of({"@"}, i) >>)

subsequent(i) ==
    alt(<< call("initial", 0, i),
           LET d == call("digit", 10, i) IN IF d.k = "ok" THEN Ok(Head(i), d.rest) ELSE d,
           call("special_subsequent", 0, i) >>)

\* many0(subsequent), many0_count(subsequent): the text left after them
RECURSIVE ManySubsequent(_)
ManySubsequent(i) ==
    LET r == call("subsequent", 0, i)
    IN  IF r.k = "ok" THEN ManySubsequent(r.rest) ELSE i

sign_subsequent(i) == alt(<< call("initial", 0, i), call("explicit_sign", 0, i), one_of({"@"}, i) >>)

dot_subsequent(i) == alt(<< call("sign_subsequent", 0, i), one_of({"."}, i) >>)

\* acc * 16 + dig as u32 on the u32 accumulator: None where the debug profile's
\* overflow check panics, the wrapped value in the release profile
u32_shift_in(acc, dig) ==
    LET t == MulAdd(acc, 16, dig)
    IN  IF Leq(t, U32_MAX) THEN Some(t)
        ELSE IF overflowChecks THEN None
        ELSE Some(Truncate(t, 2))

\* fold_many1(digit::<16>, || 0u32, |acc, dig| acc * 16 + dig as u32), from the
\* accumulator acc on: "ok" with the accumulator and the text left, or "panic"
RECURSIVE HexFold(_, _)
HexFold(acc, i) ==
    LET d == call("digit", 16, i)
    IN  IF d.k # "ok" THEN Ok(acc, i)
        ELSE LET next == u32_shift_in(acc, d.val)
             IN  IF next.some THEN HexFold(next.v, d.rest) ELSE Panic

\* the value of a machine integer that fits the integers of the model
Small(n) == IF n = << >> THEN 0 ELSE IF Len(n) = 1 THEN n[1] ELSE n[1] + Limb * n[2]

\* char::from_u32: the scalar value, unless above U+10FFFF or a surrogate
from_u32(n) ==
    IF Leq(n, <<65535, 16>>) /\ ~(Leq(<<55296>>, n) /\ Leq(n, <<57343>>))
    THEN Some(Small(n))
    ELSE None

hex_scalar_value(i) ==
    IF call("digit", 16, i).k # "ok" THEN Err
    ELSE LET f == HexFold(<< >>, i)
         IN  IF f.k = "panic" THEN Panic
             ELSE LET c == from_u32(f.val)
                  IN  IF c.some THEN Ok(c.v, f.rest) ELSE Err

inline_hex_escape(i) ==
    IF StartsWith(i, <<"\\", "x">>) THEN call("hex_scalar_value", 0, Drop(i, 2)) ELSE Err

mnemonic_escape(i) ==
    alt(<< value(7, tag(<<"\\", "a">>, i)),
           value(8, tag(<<"\\", "b">>, i)),
           value(9, tag(<<"\\", "t">>, i)),
           value(10, tag(<<"\\", "n">>, i)),
           value(13, tag(<<"\\", "r">>, i)) >>)

symbol_element(i) ==
    alt(<< LET c == none_of({"|", "\\"}, i)
           IN  IF c.k = "ok" THEN Ok(Ord(c.val), c.rest) ELSE c,
           call("inline_hex_escape", 0, i),
           call("mnemonic_escape", 0, i),
           value(Ord("|"), tag(<<"\\", "|">>, i)) >>)

\* many0_count(symbol_element): "ok" with the text left, or "panic"
RECURSIVE ManySymbolElement(_)
ManySymbolElement(i) ==
    LET r == call("symbol_element", 0, i)
    IN  IF r.k = "ok" THEN ManySymbolElement(r.rest)
        ELSE IF r.k = "panic" THEN Panic
        ELSE Ok(<< >>, i)

peculiar_identifier(i) ==
    alt(<< recognize(i, call("explicit_sign", 0, i)),
           LET s == call("explicit_sign", 0, i)
               p == tag(<<".">>, s.rest)
               d == call("dot_subsequent", 0, p.rest)
           IN  IF s.k = "ok" /\ p.k = "ok" /\ d.k = "ok"
               THEN recognize(i, Ok(<< >>, ManySubsequent(d.rest)))
               ELSE Err,
           LET p == tag(<<".">>, i)
               d == call("dot_subsequent", 0, p.rest)
           IN  IF p.k = "ok" /\ d.k = "ok"
               THEN recognize(i, Ok(<< >>, ManySubsequent(d.rest)))
               ELSE Err >>)

identifier(i) ==
    alt(<< LET h == call("initial", 0, i)
           IN  IF h.k = "ok" THEN recognize(i, Ok(<< >>, ManySubsequent(h.rest))) ELSE Err,
           IF ~StartsWith(i, <<"|">>) THEN Err
           ELSE LET m == ManySymbolElement(Tail(i))
                IN  IF m.k = "panic" THEN Panic
                    ELSE IF StartsWith(m.rest, <<"|">>)
                    THEN Ok(SubSeq(i, 2, Len(i) - Len(m.rest)), Tail(m.rest))
                    ELSE Err,
           call("peculiar_identifier", 0, i) >>)

---------------------------------------------------------------------------
(* Booleans, characters and strings *)

boolean(i) ==
    alt(<< value(TRUE, tag(<<"#", "t", "r", "u", "e">>, i)),
           value(FALSE, tag(<<"#", "f", "a", "l", "s", "e">>, i)),
           value(TRUE, tag(<<"#", "t">>, i)),
           value(FALSE, tag(<<"#", "f">>, i)) >>)

character_name(i) ==
    alt(<< value(7, tag(<<"a", "l", "a", "r", "m">>, i)),
           value(8, tag(<<"b", "a", "c", "k", "s", "p", "a", "c", "e">>, i)),
           value(27, tag(<<"d", "e", "l", "e", "t", "e">>, i)),
           value(10, tag(<<"n", "e", "w", "l", "i", "n", "e">>, i)),
           value(0, tag(<<"n", "u", "l", "l">>, i)),
           value(13, tag(<<"r", "e", "t", "u", "r", "n">>, i)),
           value(32, tag(<<"s", "p", "a", "c", "e">>, i)),
           value(9, tag(<<"t", "a", "b">>, i)) >>)

character(i) ==
    alt(<< IF StartsWith(i, <<"#", "\\">>)
           THEN LET c == anychar(Drop(i, 2))
                IN  IF c.k = "ok" THEN Ok(Ord(c.val), c.rest) ELSE c
           ELSE Err,
           IF StartsWith(i, <<"#", "\\">>) THEN call("character_name", 0, Drop(i, 2)) ELSE Err,
           IF StartsWith(i, <<"#", "\\", "x">>) THEN call("hex_scalar_value", 0, Drop(i, 3)) ELSE Err >>)

\* many0_count(intraline_whitespace): the text left after them
RECURSIVE ManyIntraline(_)
ManyIntraline(i) ==
    IF call("intraline_whitespace", 0, i).k = "ok" THEN ManyIntraline(Tail(i)) ELSE i

\* the value is Option<char>: Some(scalar value), or None for a line continuation
string_element(i) ==
    alt(<< LET c == none_of({"\"", "\\"}, i)
           IN  IF c.k = "ok" THEN Ok(Some(Ord(c.val)), c.rest) ELSE c,
           LET m == call("mnemonic_escape", 0, i)
           IN  IF m.k = "ok" THEN Ok(Some(m.val), m.rest) ELSE m,
           value(Some(Ord("\"")), tag(<<"\\", "\"">>, i)),
           value(Some(Ord("\\")), tag(<<"\\", "\\">>, i)),
           IF ~StartsWith(i, <<"\\">>) THEN Err
           ELSE LET e == call("line_ending", 0, ManyIntraline(Tail(i)))
                IN  IF e.k = "ok" THEN Ok(None, ManyIntraline(e.rest)) ELSE Err,
           LET h == call("inline_hex_escape", 0, i)
           IN  IF h.k = "ok" THEN Ok(Some(h.val), h.rest) ELSE h >>)

\* fold_many0(string_element, String::with_capacity, acc.extend(c)) from acc on
RECURSIVE StringFold(_, _)
StringFold(acc, i) ==
    LET e == call("string_element", 0, i)
    IN  IF e.k = "panic" THEN Panic
        ELSE IF e.k = "err" THEN Ok(acc, i)
        ELSE StringFold(IF e.val.some THEN Append(acc, e.val.v) ELSE acc, e.rest)

string(i) ==
    IF ~StartsWith(i, <<"\"">>) THEN Err
    ELSE LET f == StringFold(<< >>, Tail(i))
         IN  IF f.k = "panic" THEN Panic
             ELSE IF StartsWith(f.rest, <<"\"">>) THEN Ok(f.val, Tail(f.rest))
             ELSE Err

---------------------------------------------------------------------------
(* Numbers.  An i64 is a sign and a magnitude; an f64 is modelled without   *)
(* rounding, as a sign and mant / 10^frac ("dec"), as the quotient of two   *)
(* integers ("quot"), or as an infinity or NaN.                             *)

Integer(neg, mag) == [tag |-> "Integer", neg |-> neg /\ mag # << >>, mag |-> mag]

Rational(neg, num, den) ==
    [tag |-> "Rational", neg |-> neg /\ num # << >>, num |-> num, den |-> den]

\* mant / 10^frac with the trailing zeros of the fraction removed
RECURSIVE RealDec(_, _, _)
RealDec(neg, mant, frac) ==
    IF frac > 0 /\ DivSmall(mant, 10).r = 0
    THEN RealDec(neg, DivSmall(mant, 10).q, frac - 1)
    ELSE [tag |-> "Real", kind |-> "dec", neg |-> neg, mant |-> mant, frac |-> frac]

RealQuot(neg, num, den) ==
    [tag |-> "Real", kind |-> "quot", neg |-> neg, num |-> num, den |-> den]

RealInf(neg) == [tag |-> "Real", kind |-> "inf", neg |-> neg]

RealNaN == [tag |-> "Real", kind |-> "nan"]

\* -x for a Number
Neg(x) ==
    CASE x.tag = "Integer" -> Integer(~x.neg, x.mag)
      [] x.tag = "Rational" -> Rational(~x.neg, x.num, x.den)
      [] x.tag = "Real" /\ x.kind = "nan" -> x
      [] OTHER -> [x EXCEPT !.neg = ~x.neg]

\* n * 10^e
RECURSIVE MulPow10(_, _)
MulPow10(n, e) == IF e = 0 THEN n ELSE MulPow10(MulAdd(n, 10, 0), e - 1)

\* the value of a string of decimal digits, of any length
RECURSIVE DecimalValue(_, _)
DecimalValue(acc, s) ==
    IF s = << >> THEN acc
    ELSE DecimalValue(MulAdd(acc, 10, call("digit", 10, s).val), Tail(s))

\* the text left after many0_count(digit::<10>)
RECURSIVE ManyDigit10(_)
ManyDigit10(i) == IF call("digit", 10, i).k = "ok" THEN ManyDigit10(Tail(i)) ELSE i

sign(i) == alt(<< tag(<<"+">>, i), tag(<<"-">>, i), tag(<< >>, i) >>)

\* one step of uinteger's fold: acc?.checked_mul(R as i64)?.checked_add(dig as i64)
uinteger_step(R, acc, dig) ==
    IF ~acc.some THEN None
    ELSE LET m == checked_mul(acc.v, R)
         IN  IF ~m.some THEN None ELSE checked_add(m.v, dig)

\* fold_many1(digit::<R>, || Some(0i64), step) from acc on: the accumulator and
\* the text left once no digit follows
RECURSIVE UintFold(_, _, _)
UintFold(R, acc, i) ==
    LET d == call("digit", R, i)
    IN  IF d.k # "ok" THEN [acc |-> acc, rest |-> i]
        ELSE UintFold(R, uinteger_step(R, acc, d.val), d.rest)

uinteger(R, i) ==
    IF call("digit", R, i).k # "ok" THEN Err
    ELSE LET f == UintFold(R, Some(<< >>), i)
         IN  IF f.acc.some THEN Ok(f.acc.v, f.rest) ELSE Err

\* s.parse::<u32>() of an optional sign and decimal digits
parse_u32(s) ==
    IF Head(s) = "-" THEN None
    ELSE LET v == DecimalValue(<< >>, IF Head(s) = "+" THEN Tail(s) ELSE s)
         IN  IF Leq(v, U32_MAX) THEN Some(v) ELSE None

\* acc * 10^n with every multiplication checked
RECURSIVE CheckedPowFrom(_, _)
CheckedPowFrom(acc, n) ==
    IF n = 0 THEN Some(acc)
    ELSE LET m == checked_mul(acc, 10)
         IN  IF m.some THEN CheckedPowFrom(m.v, n - 1) ELSE None

\* 10i64.checked_pow(e): an exponent of two limbs overflows like one of 2^16
checked_pow10(e) == CheckedPowFrom(<<1>>, IF Len(e) <= 1 THEN Small(e) ELSE Limb)

\* the value is the decimal exponent n of the i64 power of ten 10^n it stands for
suffix(i) ==
    alt(<< IF ~StartsWith(i, <<"e">>) THEN Err
           ELSE LET sg == call("sign", 0, Tail(i))
                    ds == ManyDigit10(sg.rest)
                    s  == SubSeq(Tail(i), 1, Len(Tail(i)) - Len(ds))
                IN  IF ds = sg.rest THEN Err
                    ELSE LET e == parse_u32(s)
                         IN  IF e.some /\ checked_pow10(e.v).some
                             THEN Ok(Small(e.v), ds)
                             ELSE Err,
           value(0, tag(<< >>, i)) >>)

decimal(R, i) ==
    IF R # 10 THEN Err
    ELSE alt(<<
           LET a == ManyDigit10(i)
               b == ManyDigit10(Tail(a))
               s == call("suffix", 0, b)
               whole == SubSeq(i, 1, Len(i) - Len(a))
               fract == SubSeq(Tail(a), 1, Len(Tail(a)) - Len(b))
           IN  IF a # i /\ StartsWith(a, <<".">>)
               THEN Ok(RealDec(FALSE, MulPow10(DecimalValue(<< >>, whole \o fract), s.val),
                               Len(fract)), s.rest)
               ELSE Err,
           LET b == ManyDigit10(Tail(i))
               s == call("suffix", 0, b)
               fract == SubSeq(Tail(i), 1, Len(Tail(i)) - Len(b))
           IN  IF StartsWith(i, <<".">>) /\ b # Tail(i)
               THEN Ok(RealDec(FALSE, MulPow10(DecimalValue(<< >>, fract), s.val),
                               Len(fract)), s.rest)
               ELSE Err,
           LET u == call("uinteger", 10, i)
               s == call("suffix", 0, u.rest)
               p == MulPow10(u.val, s.val)
           IN  IF u.k # "ok" THEN Err
               ELSE IF Leq(p, I64_MAX) THEN Ok(Integer(FALSE, p), s.rest)
               ELSE Ok(RealDec(FALSE, p, 0), s.rest) >>)

ureal(R, i) ==
    alt(<< LET n == call("uinteger", R, i)
               d == call("uinteger", R, Tail(n.rest))
           IN  IF n.k = "ok" /\ StartsWith(n.rest, <<"/">>) /\ d.k = "ok" /\ Leq(d.val, U32_MAX)
               THEN Ok(Rational(FALSE, n.val, d.val), d.rest)
               ELSE Err,
           call("decimal", R, i),
           LET u == call("uinteger", R, i)
           IN  IF u.k = "ok" THEN Ok(Integer(FALSE, u.val), u.rest) ELSE Err >>)

infnan(i) ==
    alt(<< value(RealInf(FALSE), tag(<<"+", "i", "n", "f", ".", "0">>, i)),
           value(RealInf(TRUE), tag(<<"-", "i", "n", "f", ".", "0">>, i)),
           value(RealNaN, tag(<<"+", "n", "a", "n", ".", "0">>, i)),
           value(RealNaN, tag(<<"-", "n", "a", "n", ".", "0">>, i)) >>)

real(R, i) ==
    alt(<< LET s == call("sign", 0, i)
               u == call("ureal", R, s.rest)
           IN  IF u.k # "ok" THEN Err
               ELSE IF s.val = <<"-">> THEN Ok(Neg(u.val), u.rest)
               ELSE u,
           call("infnan", 0, i) >>)

complex(R, i) == call("real", R, i)

exactness(i) ==
    alt(<< value("Inexact", tag(<<"#", "i">>, i)),
           value("Exact", tag(<<"#", "e">>, i)),
           value("Unspecified", tag(<< >>, i)) >>)

radix(R, i) ==
    CASE R = 2 -> value(<< >>, tag(<<"#", "b">>, i))
      [] R = 8 -> value(<< >>, tag(<<"#", "o">>, i))
      [] R = 10 -> value(<< >>, alt(<< tag(<<"#", "d">>, i), tag(<< >>, i) >>))
      [] R = 16 -> value(<< >>, tag(<<"#", "x">>, i))

\* permutation((radix::<R>, exactness)): each pass applies the first parser that
\* has not succeeded yet and succeeds on the current text; it fails when one is
\* left that does not. The value is the exactness.
prefix(R, i) ==
    LET r1 == call("radix", R, i)
    IN  IF r1.k = "ok"
        THEN LET e == call("exactness", 0, r1.rest)
             IN  IF e.k = "ok" THEN Ok(e.val, e.rest) ELSE Err
        ELSE LET e == call("exactness", 0, i)
                 r2 == call("radix", R, e.rest)
             IN  IF e.k = "ok" /\ r2.k = "ok" THEN Ok(e.val, r2.rest) ELSE Err

\* 2^63: the f64 nearest to i64::MAX, and the magnitude of i64::MIN
TwoTo63 == <<0, 0, 0, 32768>>

\* the closure of num: Some(number), or None where it reaches todo!("idk")
apply_exactness(ex, n) ==
    CASE ex = "Inexact" /\ n.tag = "Integer" -> Some(RealDec(n.neg, n.mag, 0))
      [] ex = "Inexact" /\ n.tag = "Real" -> Some(n)
      [] ex = "Inexact" /\ n.tag = "Rational" -> Some(RealQuot(n.neg, n.num, n.den))
      [] ex = "Exact" /\ n.tag = "Integer" -> Some(n)
      [] ex = "Exact" /\ n.tag = "Real" ->
            \* x as i64 saturates and maps NaN to 0; as f64 it is compared with x
            \* (a "dec" is integral exactly when no fraction digit is left)
            IF n.kind # "dec" \/ n.frac # 0 THEN None
            ELSE IF Leq(n.mant, I64_MAX) THEN Some(Integer(n.neg, n.mant))
            ELSE IF n.mant = TwoTo63
                 THEN Some(Integer(n.neg, IF n.neg THEN TwoTo63 ELSE I64_MAX))
            ELSE None
      [] ex = "Exact" /\ n.tag = "Rational" -> Some(n)
      [] ex = "Unspecified" -> Some(n)

num(R, i) ==
    LET p == call("prefix", R, i)
        c == call("complex", R, p.rest)
    IN  IF p.k # "ok" \/ c.k # "ok" THEN Err
        ELSE LET n == apply_exactness(p.val, c.val)
             IN  IF n.some THEN Ok(n.v, c.rest) ELSE Panic

number(i) == alt(<< call("num", 2, i), call("num", 8, i), call("num", 10, i), call("num", 16, i) >>)

---------------------------------------------------------------------------
(* Tokens *)

Identifier == [t |-> "Identifier"]

Boolean(b) == [t |-> "Boolean", b |-> b]

Number(n) == [t |-> "Number", n |-> n]

Character(c) == [t |-> "Character", c |-> c]

String(str) == [t |-> "String", s |-> str]

Punct(name) == [t |-> name]

\* map(p, Variant) on p's result
map(r, variant) ==
    IF r.k # "ok" THEN r
    ELSE Ok(CASE variant = "Boolean" -> Boolean(r.val)
              [] variant = "Number" -> Number(r.val)
              [] variant = "Character" -> Character(r.val)
              [] variant = "String" -> String(r.val), r.rest)

token(i) ==
    alt(<< map(call("boolean", 0, i), "Boolean"),
           map(call("number", 0, i), "Number"),
           value(Identifier, call("identifier", 0, i)),
           map(call("character", 0, i), "Character"),
           map(call("string", 0, i), "String"),
           value(Punct("OpenParen"), tag(<<"(">>, i)),
           value(Punct("CloseParen"), tag(<<")">>, i)),
           value(Punct("OpenVec"), tag(<<"#", "(">>, i)),
           value(Punct("OpenByteVec"), tag(<<"#", "u", "8", "(">>, i)),
           value(Punct("Quote"), tag(<<"'">>, i)),
           value(Punct("BackQuote"), tag(<<"<backquote>">>, i)),
           value(Punct("CommaAt"), tag(<<",", "@">>, i)),
           value(Punct("Comma"), tag(<<",">>, i)),
           value(Punct("Period"), tag(<<",">>, i)) >>)

\* one pass of lex's many0 over delimited(intertoken_space, token, intertoken_space)
lex_item(i) ==
    LET t == call("token", 0, call("intertoken_space", 0, i).rest)
    IN  IF t.k # "ok" THEN t ELSE Ok(t.val, call("intertoken_space", 0, t.rest).rest)

---------------------------------------------------------------------------
\* Every rule applies the other rules through this one operator, the table of the
\* grammar's rules by name (R is the radix of a rule generic in it, else 0)
call(rule, R, i) ==
    CASE rule = "intraline_whitespace" -> intraline_whitespace(i)
      [] rule = "line_ending" -> line_ending(i)
      [] rule = "whitespace" -> whitespace(i)
      [] rule = "datum" -> datum(i)
      [] rule = "comment_text" -> comment_text(i)
      [] rule = "directive" -> directive(i)
      [] rule = "nested_comment" -> nested_comment(i)
      [] rule = "comment_cont" -> comment_cont(i)
      [] rule = "comment" -> comment(i)
      [] rule = "atmosphere" -> atmosphere(i)
      [] rule = "intertoken_space" -> intertoken_space(i)
      [] rule = "letter" -> letter(i)
      [] rule = "special_initial" -> special_initial(i)
      [] rule = "initial" -> initial(i)
      [] rule = "explicit_sign" -> explicit_sign(i)
      [] rule = "special_subsequent" -> special_subsequent(i)
      [] rule = "subsequent" -> subsequent(i)
      [] rule = "sign_subsequent" -> sign_subsequent(i)
      [] rule = "dot_subsequent" -> dot_subsequent(i)
      [] rule = "hex_scalar_value" -> hex_scalar_value(i)
      [] rule = "inline_hex_escape" -> inline_hex_escape(i)
      [] rule = "mnemonic_escape" -> mnemonic_escape(i)
      [] rule = "symbol_element" -> symbol_element(i)
      [] rule = "peculiar_identifier" -> peculiar_identifier(i)
      [] rule = "identifier" -> identifier(i)
      [] rule = "boolean" -> boolean(i)
      [] rule = "character_name" -> character_name(i)
      [] rule = "character" -> character(i)
      [] rule = "string_element" -> string_element(i)
      [] rule = "string" -> string(i)
      [] rule = "sign" -> sign(i)
      [] rule = "suffix" -> suffix(i)
      [] rule = "infnan" -> infnan(i)
      [] rule = "exactness" -> exactness(i)
      [] rule = "number" -> number(i)
      [] rule = "token" -> token(i)
      [] rule = "lex_item" -> lex_item(i)
      [] rule = "digit" -> digit(R, i)
      [] rule = "uinteger" -> uinteger(R, i)
      [] rule = "decimal" -> decimal(R, i)
      [] rule = "ureal" -> ureal(R, i)
      [] rule = "real" -> real(R, i)
      [] rule = "complex" -> complex(R, i)
      [] rule = "radix" -> radix(R, i)
      [] rule = "prefix" -> prefix(R, i)
      [] rule = "num" -> num(R, i)

(* Input texts: every concatenation of at most n pieces of a vocabulary *)

RECURSIVE Pieces(_, _)
Pieces(F, n) ==
    IF n = 0 THEN { << >> }
    ELSE LET S == Pieces(F, n - 1) IN S \cup { s \o f : s \in S, f \in F }

\* n copies of the character c
RECURSIVE Rep(_, _)
Rep(c, n) == IF n = 0 THEN << >> ELSE <<c>> \o Rep(c, n - 1)

NoCall == [k |-> "none"]

MaxLinePieces == 3

LineVocabulary ==
    { <<"#", "e">>, <<"#", "i">>, <<"#", "d">>, <<"#", "x">>, <<"#", "b">>, <<"#", "o">>,
      <<"1">>, <<"0">>, <<".", "5">>, <<".">>, <<"+">>, <<"-">>, <<"/">>, <<"a">>,
      <<"+", "i", "n", "f", ".", "0">>, <<"+", "n", "a", "n", ".", "0">>,
      <<"#", "\\">>, <<"x", "4", "1">>,
      <<"a", "l", "a", "r", "m">>, <<"b", "a", "c", "k", "s", "p", "a", "c", "e">>,
      <<"d", "e", "l", "e", "t", "e">>, <<"n", "e", "w", "l", "i", "n", "e">>,
      <<"n", "u", "l", "l">>, <<"r", "e", "t", "u", "r", "n">>,
      <<"s", "p", "a", "c", "e">>, <<"t", "a", "b">> }

Lines == Pieces(LineVocabulary, MaxLinePieces)

---------------------------------------------------------------------------
(* main: the loop over the lines of stdin, each handed to lex::token *)

InitMain ==
    /\ overflowChecks \in BOOLEAN
    /\ stdin \in { <<s>> : s \in Lines }
    /\ input = << >>
    /\ pc = "stdin"
    /\ rdx = 10
    /\ res = NoCall
    /\ printed = "ask me to lex some tokens for you:"
    /\ toks = << >>
    /\ rest = << >>

\* one turn of the loop, over a line whose token call returns
MainLine ==
    /\ pc = "stdin"
    /\ stdin # << >>
    /\ call("token", 0, Head(stdin)).k # "panic"
    /\ stdin' = Tail(stdin)
    /\ input' = Head(stdin)
    /\ res' = call("token", 0, Head(stdin))
    /\ printed' = IF res'.k = "err" THEN "that is not a token!"
                  ELSE IF res'.rest = << >> THEN "that is a token."
                  ELSE "that is token and some extra stuff."
    /\ UNCHANGED <<overflowChecks, pc, rdx, toks, rest>>

\* one turn of the loop, over a line on which the token call panics: the process dies
MainPanic ==
    /\ pc = "stdin"
    /\ stdin # << >>
    /\ call("token", 0, Head(stdin)).k = "panic"
    /\ stdin' = Tail(stdin)
    /\ input' = Head(stdin)
    /\ res' = Panic
    /\ pc' = "panicked"
    /\ UNCHANGED <<overflowChecks, rdx, printed, toks, rest>>

\* stdin has ended: the loop and main return
MainEof ==
    /\ pc = "stdin"
    /\ stdin = << >>
    /\ pc' = "exit"
    /\ UNCHANGED <<overflowChecks, stdin, input, rdx, res, printed, toks, rest>>

NextMain == MainLine \/ MainPanic \/ MainEof

Spec == InitMain /\ [][NextMain]_vars

---------------------------------------------------------------------------
(* lex: many0(delimited(intertoken_space, token, intertoken_space)), one pass  *)
(* of many0's loop per step.  toks and rest are the loop's acc and i.          *)

MaxCommentPieces == 5

CommentVocabulary == { <<"#", "|">>, <<"|", "#">>, <<"a">>, <<" ">> }

MaxLexPieces == 3

LexVocabulary ==
    { <<"+">>, <<"-">>, <<".">>, <<">">>, <<"x">>, <<"1">>, <<"(">>, <<"]">>,
      <<" ">>, <<"\n">>, <<";">>, <<"#", "e">>, <<".", "5">> }

\* the spellings the documentation of the lexer names as single tokens or comments
Examples ==
    { <<"#", "t">>, <<"#", "t", "r", "u", "e">>, <<"#", "f">>, <<"#", "f", "a", "l", "s", "e">>,
      <<"#", "e", "1", ".", "0">>, <<"#", "i", "5">>, <<"1", "/", "3">>,
      <<"#", "x", "1", "0">>, <<"#", "b", "1", "0", "1">>, <<"-", "5">>,
      <<"-">>, <<"+">>, <<".", ".", ".">>, <<"-", ">", "f", "o", "o">>, <<"+", ".", "x">>,
      <<".">>, <<"f", "o", "o">>, <<"|", "a", " ", "b", "|">>,
      <<"#", "\\", "a">>, <<"#", "\\", "n", "e", "w", "l", "i", "n", "e">>,
      <<"#", "\\", "x", "4", "1">>,
      <<"\"", "a", "\\", "n", "b", "\\", "t", "c", "\"">>,
      <<"\"", "a", "\\", "\n", " ", "b", "\"">>,
      <<"(">>, <<")">>, <<"#", "(">>, <<"#", "u", "8", "(">>, <<"'">>, <<"<backquote>">>,
      <<",">>, <<",", "@">>,
      <<"#", "|", "a", " ", "#", "|", "b", "|", "#", " ", "c", "|", "#">>,
      <<"9", "9", "9", "9", "9", "9", "9", "9", "9", "9",
        "9", "9", "9", "9", "9", "9", "9", "9", "9", "9">> }

LexInputs ==
    Pieces(CommentVocabulary, MaxCommentPieces) \cup Pieces(LexVocabulary, MaxLexPieces)
        \cup Examples

InitLex ==
    /\ overflowChecks \in BOOLEAN
    /\ stdin = << >>
    /\ input \in LexInputs
    /\ pc = "many0"
    /\ rdx = 10
    /\ res = NoCall
    /\ printed = ""
    /\ toks = << >>
    /\ rest = input

\* a pass that parses an item: it is pushed and the loop goes on after it
LexItem ==
    /\ pc = "many0"
    /\ LET r == call("lex_item", 0, rest)
       IN  /\ r.k = "ok"
           /\ Len(r.rest) # Len(rest)
           /\ toks' = Append(toks, r.val)
           /\ rest' = r.rest
    /\ UNCHANGED <<overflowChecks, stdin, input, pc, rdx, res, printed>>

\* a pass that fails with Err::Error: lex returns Ok((i, acc)); many0 turns a pass
\* that consumed nothing into an error
LexReturn ==
    /\ pc = "many0"
    /\ LET r == call("lex_item", 0, rest)
       IN  /\ r.k = "err" \/ (r.k = "ok" /\ Len(r.rest) = Len(rest))
           /\ res' = IF r.k = "err" THEN Ok(toks, rest) ELSE Err
    /\ pc' = "returned"
    /\ UNCHANGED <<overflowChecks, stdin, input, rdx, printed, toks, rest>>

\* a pass that panics unwinds through lex
LexPanic ==
    /\ pc = "many0"
    /\ call("lex_item", 0, rest).k = "panic"
    /\ res' = Panic
    /\ pc' = "panicked"
    /\ UNCHANGED <<overflowChecks, stdin, input, rdx, printed, toks, rest>>

NextLex == LexItem \/ LexReturn \/ LexPanic

SpecLex == InitLex /\ [][NextLex]_vars

---------------------------------------------------------------------------
(* Direct calls of uinteger::<R> and of token on one numeric literal *)

Radices == {2, 8, 10, 16}

MaxRun == 64

\* the digits of n in radix R, most significant first (<< >> for zero)
RECURSIVE ToRadix(_, _)
ToRadix(n, R) ==
    IF n = << >> THEN << >>
    ELSE Append(ToRadix(DivSmall(n, R).q, R), DigitTable[DivSmall(n, R).r + 1])

\* 2^64 - 1
U64_MAX == <<65535, 65535, 65535, 65535>>

\* a leading digit and a run of one digit; and the literals around i64::MAX and 2^64
DigitStrings(R) ==
    { <<h>> \o Rep(f, n) : h \in {"0", "1", DigitTable[R]},
                           f \in {"0", DigitTable[R]},
                           n \in 0..MaxRun }
      \cup { ToRadix(MulAdd(m, 1, d), R) : m \in {I64_MAX, U64_MAX}, d \in 0..2 }
      \cup { ToRadix(MulAdd(MulAdd(m, 1, 1), R, d), R) : m \in {I64_MAX, U64_MAX}, d \in 0..1 }

\* the radix marker of a literal in radix R
RadixMarker(R) ==
    CASE R = 2 -> <<"#", "b">>
      [] R = 8 -> <<"#", "o">>
      [] R = 10 -> << >>
      [] R = 16 -> <<"#", "x">>

InitUinteger ==
    /\ overflowChecks \in BOOLEAN
    /\ stdin = << >>
    /\ rdx \in Radices
    /\ input \in DigitStrings(rdx)
    /\ pc = "call"
    /\ res = NoCall
    /\ printed = ""
    /\ toks = << >>
    /\ rest = << >>

CallUinteger ==
    /\ pc = "call"
    /\ res' = call("uinteger", rdx, input)
    /\ pc' = "uinteger"
    /\ UNCHANGED <<overflowChecks, stdin, input, rdx, printed, toks, rest>>

\* token on the digits behind the marker of their radix
CallTokenOnLiteral ==
    /\ pc = "call"
    /\ res' = call("token", 0, RadixMarker(rdx) \o input)
    /\ pc' = "token"
    /\ UNCHANGED <<overflowChecks, stdin, input, rdx, printed, toks, rest>>

NextUinteger == CallUinteger \/ CallTokenOnLiteral

SpecUinteger == InitUinteger /\ [][NextUinteger]_vars

---------------------------------------------------------------------------
(* Direct calls of hex_scalar_value *)

MaxHexPieces == 3

MaxHexZeros == 8

HexVocabulary == { <<"0">>, <<"1">>, <<"4">>, <<"d">>, <<"f">>, <<"8", "0">>, <<"f", "f">> }

HexStrings ==
    (Pieces(HexVocabulary, MaxHexPieces) \ { << >> })
      \cup { <<h>> \o Rep("0", n) \o t :
                h \in {"1", "f"}, n \in 0..MaxHexZeros,
                t \in { <<"4", "1">>, <<"d", "8", "0", "0">>, <<"f", "f", "f", "f">> } }

InitHexScalar ==
    /\ overflowChecks \in BOOLEAN
    /\ stdin = << >>
    /\ rdx = 16
    /\ input \in HexStrings
    /\ pc = "call"
    /\ res = NoCall
    /\ printed = ""
    /\ toks = << >>
    /\ rest = << >>

\* the call returns
CallHexScalarValue ==
    /\ pc = "call"
    /\ call("hex_scalar_value", 0, input).k # "panic"
    /\ res' = call("hex_scalar_value", 0, input)
    /\ pc' = "hex_scalar_value"
    /\ UNCHANGED <<overflowChecks, stdin, input, rdx, printed, toks, rest>>

\* the call panics on its overflow check
CallHexScalarValuePanic ==
    /\ pc = "call"
    /\ call("hex_scalar_value", 0, input).k = "panic"
    /\ res' = Panic
    /\ pc' = "panicked"
    /\ UNCHANGED <<overflowChecks, stdin, input, rdx, printed, toks, rest>>

NextHexScalar == CallHexScalarValue \/ CallHexScalarValuePanic

SpecHexScalar == InitHexScalar /\ [][NextHexScalar]_vars

---------------------------------------------------------------------------
(* Properties *)

\* the mathematical value of a digit string s in radix R, with no width
RECURSIVE MathValueFrom(_, _, _)
MathValueFrom(acc, R, s) ==
    IF s = << >> THEN acc
    ELSE MathValueFrom(
             MulAdd(acc, R, (CHOOSE x \in 1..16 : DigitTable[x] = Head(s)) - 1), R, Tail(s))

MathValue(R, s) == MathValueFrom(<< >>, R, s)

\* main has handed a line to token and the call has ended
TokenCalled == pc \in {"stdin", "panicked"} /\ res # NoCall

\* the single-token spellings among the examples, the period and the character
\* literals set aside
TokenSpellings ==
    { s \in Examples : /\ ~StartsWith(s, <<"#", "|">>)
                       /\ ~StartsWith(s, <<"#", "\\">>)
                       /\ s \notin { <<".">>, Rep("9", 20) } }

\* C1: for every input that is exactly one valid token spelling (a boolean, a
\* numeric literal, an identifier such as +, ..., ->foo, +.x, a character or
\* string literal, a punctuation marker), lex returns exactly one token and an
\* empty remainder.
C1_OneSpellingOneToken ==
    (pc \in {"returned", "panicked"} /\ input \in TokenSpellings)
        => (res.k = "ok" /\ Len(toks) = 1 /\ rest = << >>)

\* C2: token on the single character . succeeds and yields the Period token with
\* an empty remainder.
C2_PeriodIsAToken ==
    (TokenCalled /\ input = <<".">>)
        => (res.k = "ok" /\ res.val = Punct("Period") /\ res.rest = << >>)

\* the character names and the scalar values they denote
CharacterNames ==
    { [name |-> <<"a", "l", "a", "r", "m">>, c |-> 7],
      [name |-> <<"b", "a", "c", "k", "s", "p", "a", "c", "e">>, c |-> 8],
      [name |-> <<"d", "e", "l", "e", "t", "e">>, c |-> 127],
      [name |-> <<"n", "e", "w", "l", "i", "n", "e">>, c |-> 10],
      [name |-> <<"n", "u", "l", "l">>, c |-> 0],
      [name |-> <<"r", "e", "t", "u", "r", "n">>, c |-> 13],
      [name |-> <<"s", "p", "a", "c", "e">>, c |-> 32],
      [name |-> <<"t", "a", "b">>, c |-> 9] }

\* C3: token on #\ followed by a character name yields the Character the name
\* denotes (#\newline is U+000A) with an empty remainder, and token on #\x
\* followed by hex digits yields the Character of that scalar value (#\x41 is A):
\* the single-raw-character alternative does not pre-empt them.
C3_NamedAndHexCharacters ==
    /\ \A n \in CharacterNames :
          (TokenCalled /\ input = <<"#", "\\">> \o n.name)
              => (res.k = "ok" /\ res.val = Character(n.c) /\ res.rest = << >>)
    /\ (TokenCalled /\ input = <<"#", "\\", "x", "4", "1">>)
          => (res.k = "ok" /\ res.val = Character(65) /\ res.rest = << >>)

\* the single block comments: #| ... |# with markers balanced to any depth, the
\* depth returning to zero at the end of the text and not before
RECURSIVE CommentDepthOk(_, _)
CommentDepthOk(depth, s) ==
    IF s = << >> THEN depth = 0
    ELSE IF depth = 0 THEN FALSE
    ELSE IF StartsWith(s, <<"#", "|">>) THEN CommentDepthOk(depth + 1, Drop(s, 2))
    ELSE IF StartsWith(s, <<"|", "#">>) THEN CommentDepthOk(depth - 1, Drop(s, 2))
    ELSE CommentDepthOk(depth, Tail(s))

IsBlockComment(s) == StartsWith(s, <<"#", "|">>) /\ CommentDepthOk(1, Drop(s, 2))

\* C4: a block comment balanced to any nesting depth is consumed entirely by
\* intertoken_space as one comment, and lex produces zero tokens from it.
C4_NestedCommentIsAtmosphere ==
    (pc \in {"returned", "panicked"} /\ IsBlockComment(input))
        => (call("intertoken_space", 0, input).rest = << >> /\ toks = << >>)

\* C5: integer magnitude parsing never wraps: for every radix and non-empty digit
\* string, uinteger::<R> returns exactly the mathematical value of the digits,
\* which is then at most 2^63 - 1, or fails; and token on a literal whose digits
\* exceed the signed 64-bit range fails and yields no Number.
C5_UintegerNeverWraps ==
    /\ pc = "uinteger" =>
          \/ res.k = "err"
          \/ /\ res.k = "ok"
             /\ res.val = MathValue(rdx, input)
             /\ Leq(res.val, I64_MAX)
             /\ res.rest = << >>
    /\ (pc = "token" /\ Less(I64_MAX, MathValue(rdx, input))) => res.k = "err"

\* a state in which uinteger has refused twenty nines and one in which token has
C5_Witness ==
    /\ input = Rep("9", 20)
    /\ rdx = 10
    /\ pc \in {"uinteger", "token"}
    /\ res.k = "err"

\* the Number a literal of the digits body in radix R denotes under an exactness
LiteralValue(x, R, body) ==
    IF x = <<"#", "e">> THEN Integer(FALSE, MathValue(R, body))
    ELSE RealDec(FALSE, MathValue(R, body), 0)

RadixMarkers ==
    { [R |-> 2, m |-> <<"#", "b">>], [R |-> 8, m |-> <<"#", "o">>],
      [R |-> 10, m |-> <<"#", "d">>], [R |-> 16, m |-> <<"#", "x">>] }

\* C6: the numeric prefix accepts the radix marker and the exactness marker in
\* either order: for every radix marker m, exactness marker x and digits in that
\* radix, m x digits and x m digits are both accepted and yield the same Number
\* (#d#e1 and #e#d1 both yield Integer(1)).
C6_PrefixInEitherOrder ==
    \A r \in RadixMarkers, x \in { <<"#", "i">>, <<"#", "e">> }, body \in { <<"0">>, <<"1">> } :
        (TokenCalled /\ input \in { r.m \o x \o body, x \o r.m \o body })
            => /\ res.k = "ok"
               /\ res.val = Number(LiteralValue(x, r.R, body))
               /\ res.rest = << >>

\* C7: every grammar rule surfaces failure as a value and never as an abort: on
\* every input token returns a value and remaining text, or a failure value,
\* also for #e before a Real with no exact integer equivalent (#e1.5, #e+inf.0).
C7_NoAbort == TokenCalled => res.k \in {"ok", "err"}

\* C8: the remainder lex returns is empty or starts where neither an atmosphere
\* unit nor a token matches; an input of atmosphere only yields zero tokens and
\* an empty remainder.
C8_RemainderIsUnlexable ==
    (pc = "returned" /\ res.k = "ok")
        => \/ res.rest = << >>
           \/ /\ call("atmosphere", 0, res.rest).k = "err"
              /\ call("token", 0, res.rest).k = "err"

\* whether v is a Unicode scalar value
IsScalarValue(v) == Leq(v, <<65535, 16>>) /\ ~(Leq(<<55296>>, v) /\ Leq(v, <<57343>>))

\* C9: for every non-empty string of hex digits, of any length, hex_scalar_value
\* returns the character whose code point is the mathematical value of the
\* digits when that is a scalar value, and fails otherwise; the 32-bit
\* accumulator never wraps into a valid code point.
C9_HexScalarDecodesOrFails ==
    pc \in {"hex_scalar_value", "panicked"} =>
        IF IsScalarValue(MathValue(16, input))
        THEN res.k = "ok" /\ res.val = Small(MathValue(16, input)) /\ res.rest = << >>
        ELSE res.k = "err"

\* C10: lex terminates on every finite input: every pass of its loop shortens
\* the remaining text, and the driver reaches its final (tokens, remainder)
\* result; so lex is never found stopped anywhere but at that result, and
\* while it loops the remaining text is a suffix of the input no longer than
\* the input less one character for each token produced.
C10_LexReachesItsResult ==
    /\ pc \in {"many0", "returned"}
    /\ Len(rest) + Len(toks) <= Len(input)

=============================================================================
